---- MODULE Spec2Model ----
(***************************************************************************)
(* State-machine model of stock-whisperer-forecast:                        *)
(*   - the symbol entry points (StockSearch, Watchlist) and the resilient  *)
(*     fetcher fetchStockData with its synthetic fallback (SpecFetch);     *)
(*   - the Index page's display state under overlapping searches and       *)
(*     refreshes (SpecPage);                                               *)
(*   - the forecasting functions generatePredictions / generatePrediction  *)
(*     (SpecPredict).                                                      *)
(* Where a source file holds two versions of a function, the later one is  *)
(* modelled.                                                               *)
(*                                                                         *)
(* Numbers.  Prices are integers in cents.  Fractions (returns, momentum,  *)
(* volatility, trends, confidence, Math.random()) are fixed-point integers *)
(* in units of 1/FracUnit.  Percentages are in units of 1/1000 percent.    *)
(* Divisions round towards minus infinity.  NaN and Infinity are outside   *)
(* the model: every modelled price is positive.                            *)
(***************************************************************************)
EXTENDS Integers, Sequences, FiniteSets, TLC

VARIABLES
    \* ---- one call chain of fetchStockData, from its entry point
    entry,        \* "none" | "searchbox" | "quick" | "watchlist"
    rawQuery,     \* the symbol as typed or as listed, before any resolution
    fpc,          \* "idle" | "rejected" | "fetching" | "done"
    fSymbol,      \* the symbol argument of the running invocation
    attempts,     \* symbols a transport call was made for, in order
    outcomes,     \* how each answered transport call ended, in order
    payload,      \* the date-keyed payload of a successful answer, in wire order
    fSeries,      \* the series the call chain returned
    fSynthetic,   \* whether fSeries came from generateMockStockData
    fThrown,      \* whether an exception reached the caller
    demoToasts,   \* number of "Using demonstration data" warnings surfaced
    mockClock,    \* the clock generateMockStockData read, or NoValue
    \* ---- the Index page
    isLoading, currentSymbol, stockData, metrics, predictions, news,
    stockProfile,
    tasks,        \* the invocations of handleSearch / refreshCurrentStock
    lastWriter,   \* who made the latest write to the display state, and
                  \* whether a search for another symbol had started by then
    \* ---- the forecasting functions
    ppc,          \* "idle" | "done" (predictions) | "returned" (a number)
    pInput,       \* the function called and its argument(s)
    pOutput,      \* the predictions returned
    pThrown,      \* whether the call threw instead of returning
    pValue,       \* the number calculateSMA / calculateVolatility returned
    pCalls,       \* the calls of generatePrediction made, with the trends chosen
    \* one call of fetchStockNews
    npc,          \* "idle" | "awaiting" (the fetch is in flight) | "done"
    nSymbol,      \* the symbol argument
    nResponse,    \* what the transport answered
    nItems,       \* the NewsItem[] returned
    nThrown,      \* whether the call rejected instead of returning
    \* one call of fetchCompanyOverview
    opc,          \* "idle" | "awaiting" (the fetch is in flight) | "done"
    oSymbol,      \* the symbol argument
    oSynthetic,   \* whether the price series fetched before it was synthetic
    oResponse,    \* what the transport answered
    oProfile,     \* the StockProfile returned
    oThrown,      \* whether the call rejected instead of returning
    \* one pass of the loop body of generateMockStockData
    mpc,          \* "idle" | "done"
    mInput,       \* the base price before the pass and the draws of the pass
    mPoint,       \* the StockData point pushed
    \* the StockChart component
    isLiveUpdate,        \* the live-update switch
    isMarketOpen,        \* what checkMarketStatus found last
    connectionStatus,    \* "online" | "offline" | "weak"
    isUpdating,          \* the flag behind the spinning refresh button
    liveUpdateInterval,  \* whether liveUpdateIntervalRef holds a timer
    refreshesInFlight,   \* the calls of onRefreshData not yet settled, by origin
    \* the Watchlist component
    watchlist,           \* the WatchlistItem list, in order of adding
    favoriteStocks,      \* the favourite Set, as its insertion order
    selectedMarket,      \* "US" | "INDIA"
    newSymbol,           \* the text of the custom-symbol input
    localStorage,        \* keys 'watchlist' and 'favorites': <<>> or <<value>>
    watchlistToast       \* the last toast of the component

fetchVars == <<entry, rawQuery, fpc, fSymbol, attempts, outcomes, payload,
               fSeries, fSynthetic, fThrown, demoToasts, mockClock>>
pageVars == <<isLoading, currentSymbol, stockData, metrics, predictions, news,
              stockProfile, tasks, lastWriter>>
predictVars == <<ppc, pInput, pOutput, pThrown, pValue, pCalls>>
newsVars == <<npc, nSymbol, nResponse, nItems, nThrown>>
overviewVars == <<opc, oSymbol, oSynthetic, oResponse, oProfile, oThrown>>
mockVars == <<mpc, mInput, mPoint>>
chartVars ==
    <<isLiveUpdate, isMarketOpen, connectionStatus, isUpdating,
      liveUpdateInterval, refreshesInFlight>>
watchlistVars ==
    <<watchlist, favoriteStocks, selectedMarket, newSymbol, localStorage,
      watchlistToast>>
restVars == <<overviewVars, mockVars, chartVars, watchlistVars>>
vars == <<fetchVars, pageVars, predictVars, newsVars, restVars>>

NoValue == [none |-> TRUE]

(***************************************************************************)
(* Bounds of the model.                                                    *)
(***************************************************************************)
MaxAttempts == 3     \* transport calls followed in one call chain
MaxPayload == 3      \* date keys in a provider payload
MaxTasks == 2        \* handler invocations started on the page
MaxSeriesLen == 11   \* length of the exhaustively enumerated input series
MaxFeed == 4         \* items in the feed of a news response
MaxRefreshes == 3    \* calls of onRefreshData in flight in StockChart
MaxWatchlist == 3    \* entries of the watchlist

(***************************************************************************)
(* Fixed-point arithmetic.                                                 *)
(***************************************************************************)
FracUnit == 10 * 100

\* floor(a * b / c) for c > 0, without forming a * b
MulDiv(a, b, c) == (a \div c) * b + ((a % c) * b) \div c

Max(a, b) == IF a >= b THEN a ELSE b
Min(a, b) == IF a <= b THEN a ELSE b
Abs(a) == IF a < 0 THEN -a ELSE a

RECURSIVE SqrtBetween(_, _, _)
SqrtBetween(n, lo, hi) ==
    IF lo >= hi THEN lo
    ELSE LET mid == (lo + hi + 1) \div 2
         IN IF mid * mid <= n THEN SqrtBetween(n, mid, hi)
            ELSE SqrtBetween(n, lo, mid - 1)

\* floor of the square root of n >= 0
ISqrt(n) == SqrtBetween(n, 0, Min(n, 46340))

RECURSIVE SumSeq(_)
SumSeq(s) == IF s = <<>> THEN 0 ELSE Head(s) + SumSeq(Tail(s))

(***************************************************************************)
(* Symbols.  A symbol string is modelled by its parts: the text before the *)
(* first '.', the exchange suffix after it ("" when there is no '.'),      *)
(* whether it is written in lower case and whether it carries surrounding  *)
(* white space.                                                            *)
(***************************************************************************)
Sym(b, x) == [base |-> b, suffix |-> x, lower |-> FALSE, pad |-> FALSE]

trim(s) == [s EXCEPT !.pad = FALSE]
toUpperCase(s) == [s EXCEPT !.lower = FALSE]
includesDot(s) == s.suffix # ""
endsWith(s, x) == s.suffix = x /\ ~s.lower /\ ~s.pad
\* symbol.replace('.NS', '.BSE') and symbol.replace('.BSE', '.NS')
replaceSuffix(s, from, to) ==
    IF s.suffix = from /\ ~s.lower THEN [s EXCEPT !.suffix = to] ELSE s
\* symbol.split('.')[0]
splitBase(s) == [s EXCEPT !.suffix = ""]

isIndianStock(symbol) == endsWith(symbol, "NS") \/ endsWith(symbol, "BSE")

\* /^[A-Za-z&]+$/ on the bases the model uses
AlphaBases == {"RELIANCE", "TCS", "WIPRO", "AAPL", "NFLX", "F"}
\* bases of two or more characters
LongBases == {"RELIANCE", "TCS", "WIPRO", "AAPL", "NFLX"}
ExceptionList == {"AAPL", "MSFT", "AMZN", "TSLA", "GOOGL", "FB", "NFLX"}

popularStocks ==
    << Sym("AAPL", ""), Sym("MSFT", ""), Sym("AMZN", ""), Sym("TSLA", ""),
       Sym("GOOGL", ""), Sym("RELIANCE", "NS"), Sym("TCS", "NS"),
       Sym("HDFCBANK", "NS"), Sym("INFY", "NS"), Sym("ICICIBANK", "NS") >>

INDIAN_POPULAR_STOCKS ==
    << Sym("RELIANCE", ""), Sym("TCS", ""), Sym("HDFCBANK", ""),
       Sym("INFY", ""), Sym("ICICIBANK", ""), Sym("SBIN", ""),
       Sym("BHARTIARTL", ""), Sym("HINDUNILVR", ""), Sym("ITC", ""),
       Sym("KOTAKBANK", "") >>

US_POPULAR_STOCKS ==
    << Sym("AAPL", ""), Sym("MSFT", ""), Sym("GOOGL", ""), Sym("AMZN", ""),
       Sym("META", "") >>

\* StockSearch.handleSearch: the symbol handed to onSearch, or NoValue when
\* the query is blank and onSearch is not called
\* a faulty variant of the test: the exception list is left out
isLikelyIndianStock_noExceptions(searchSymbol) ==
    /\ searchSymbol.base \in AlphaBases /\ searchSymbol.suffix = ""
    /\ ~includesDot(searchSymbol)
    /\ searchSymbol.base \in LongBases

isLikelyIndianStock(searchSymbol) ==
    /\ searchSymbol.base \in AlphaBases /\ searchSymbol.suffix = ""
    /\ ~includesDot(searchSymbol)
    /\ searchSymbol.base \in LongBases
    /\ searchSymbol.base \notin ExceptionList

matchedStock(searchSymbol) ==
    LET hits == { i \in 1..Len(popularStocks) :
                    \/ toUpperCase(splitBase(popularStocks[i])) = searchSymbol
                    \/ toUpperCase(popularStocks[i]) = searchSymbol }
    IN IF hits = {} THEN NoValue
       ELSE popularStocks[CHOOSE i \in hits : \A j \in hits : i <= j]

StockSearch_handleSearch(query) ==
    IF trim(query).base = "" THEN NoValue
    ELSE LET searchSymbol == toUpperCase(trim(query))
             m == matchedStock(searchSymbol)
         IN IF m # NoValue THEN m
            ELSE IF isLikelyIndianStock(searchSymbol)
                 THEN [searchSymbol EXCEPT !.suffix = "NS"]
                 ELSE searchSymbol

\* Index.handleSearch: const symbol = query.toUpperCase()
Index_symbol(query) == toUpperCase(query)

(***************************************************************************)
(* Dates are day numbers of the local calendar; day d falls on weekday     *)
(* d % 7 with 0 = Sunday and 6 = Saturday (Date.getDay).                   *)
(***************************************************************************)
getDay(d) == d % 7

\* new Date(date).getTime(), in seconds
getTime(d) == d * 86400

\* date.toISOString().split('T')[0]: the UTC calendar day of the instant that
\* has the local day d and today's local time of day.  It is the local day or
\* one of its neighbours, depending on the zone's UTC offset on day d.
toISODate(d, clock) ==
    IF clock.changeDay # 0 /\ d >= clock.changeDay
    THEN d + clock.shiftAfter
    ELSE d + clock.isoShift

TodayChoices == 1000..1006

\* what new Date() and the local time zone give: today's local day, the UTC
\* day shift of the local time of day, and, when the zone's clocks change
\* within the generated range, the first local day under the new offset
\* (0 when there is none) and the shift from that day on.  Clocks going
\* forward one hour can take the shift from 0 to -1; clocks going back can
\* take it from -1 to 0.
SteadyClocks ==
    {[today |-> t, isoShift |-> z, changeDay |-> 0, shiftAfter |-> z] :
        t \in TodayChoices, z \in {-1, 0, 1}}
ChangingClocks ==
    {[today |-> t, isoShift |-> z[1], changeDay |-> t - 100, shiftAfter |-> z[2]] :
        t \in TodayChoices,
        z \in {<<0, -1>>, <<-1, 0>>}}
Clocks == SteadyClocks \cup ChangingClocks

\* Math.random(), in units of 1/FracUnit
RandomDraws == {250, 500, 750}
\* the draw generateMockStockData's random walk is followed for
MockDraws == {750}

StockPoint(d, c) == [date |-> d, close |-> c]

(***************************************************************************)
(* generateMockStockData(symbol, days).  One draw of Math.random() stands  *)
(* for every draw of the call, so the k-th kept day closes at              *)
(* basePrice * (1 + changePercent / 100)^k.                                *)
(***************************************************************************)
MockDays == 365

RECURSIVE PowFix(_, _)
\* f^k for a factor f in units of 1/10000
PowFix(f, k) ==
    IF k = 0 THEN 10000
    ELSE LET h == PowFix(f, k \div 2)
             sq == MulDiv(h, h, 10000)
         IN IF k % 2 = 0 THEN sq ELSE MulDiv(sq, f, 10000)

includesPopularIndian(symbol) ==
    symbol.base \in {"RELIANCE", "TCS", "HDFCBANK", "INFY"} /\ ~symbol.lower

mockBasePrice(symbol) ==
    IF includesPopularIndian(symbol) THEN 250000
    ELSE IF isIndianStock(symbol) THEN 150000 ELSE 10000

isWeekday(d) == getDay(d) # 0 /\ getDay(d) # 6

mockLocalDays(today, days) ==
    SelectSeq([k \in 1..(days + 1) |-> today - (days - (k - 1))], isWeekday)

generateMockStockData(symbol, days, clock, rnd) ==
    LET kept == mockLocalDays(clock.today, days)
        changePercent == (rnd - 500) * 2        \* in 1/1000 percent
        factor == 10000 + changePercent \div 10
    IN [k \in 1..Len(kept) |->
          StockPoint(toISODate(kept[k], clock),
                     MulDiv(mockBasePrice(symbol), PowFix(factor, k), 10000))]

(***************************************************************************)
(* The provider's answers to TIME_SERIES_DAILY.  A successful answer holds *)
(* a date-keyed object; an object's keys are distinct and keep the order   *)
(* in which the provider wrote them.                                       *)
(***************************************************************************)
PayloadDates == 901..(900 + MaxPayload)

wireClose(d) == 10000 + 10 * (d % 7)

TimeSeriesPayloads ==
    { [i \in 1..Len(ds) |-> StockPoint(ds[i], wireClose(ds[i]))] :
        ds \in { s \in UNION { [1..n -> PayloadDates] : n \in 1..MaxPayload } :
                   \A i, j \in DOMAIN s : i # j => s[i] # s[j] } }

FailureKinds ==
    {"networkError", "notOk", "badJson", "empty", "sentinel", "noSeries"}

Response(kind, series) == [kind |-> kind, timeSeries |-> series]

\* Array.prototype.sort with the comparator
\* (a, b) => new Date(a.date).getTime() - new Date(b.date).getTime()
RECURSIVE insertByDate(_, _)
insertByDate(sorted, p) ==
    IF sorted = <<>> THEN <<p>>
    ELSE IF getTime(sorted[Len(sorted)].date) - getTime(p.date) <= 0
         THEN Append(sorted, p)
         ELSE Append(insertByDate(SubSeq(sorted, 1, Len(sorted) - 1), p),
                     sorted[Len(sorted)])

RECURSIVE sortByDate(_)
sortByDate(s) ==
    IF s = <<>> THEN <<>>
    ELSE insertByDate(sortByDate(SubSeq(s, 1, Len(s) - 1)), s[Len(s)])

(***************************************************************************)
(* fetchStockData(symbol): what one invocation does with the answer to its *)
(* transport call.  The result is a return value, a recursive call for     *)
(* another symbol, or an exception leaving the function.                   *)
(***************************************************************************)
\* a faulty variant of the return: the synthetic series comes without the
\* toast of generateMockStockData
Returns_silent(symbol, series, synthetic) ==
    [kind |-> "return", series |-> series, synthetic |-> synthetic,
     next |-> symbol, toasts |-> 0]

Returns(symbol, series, synthetic) ==
    [kind |-> "return", series |-> series, synthetic |-> synthetic,
     next |-> symbol, toasts |-> IF synthetic THEN 1 ELSE 0]
Recurses(symbol) ==
    [kind |-> "recurse", series |-> <<>>, synthetic |-> FALSE,
     next |-> symbol, toasts |-> 0]
Throws(symbol) ==
    [kind |-> "throw", series |-> <<>>, synthetic |-> FALSE,
     next |-> symbol, toasts |-> 0]

\* the branch shared by the empty-object and the error-message checks
tryAlternativeExchange(symbol, clock, rnd) ==
    IF isIndianStock(symbol) /\ endsWith(symbol, "NS")
    THEN Recurses(replaceSuffix(symbol, "NS", "BSE"))
    ELSE IF isIndianStock(symbol) /\ endsWith(symbol, "BSE")
    THEN Recurses(replaceSuffix(symbol, "BSE", "NS"))
    ELSE Returns(symbol, generateMockStockData(symbol, MockDays, clock, rnd), TRUE)

\* Object.entries(...).map(...).sort(...)
transformTimeSeries(timeSeries) == sortByDate(timeSeries)

fetchStockData_try(symbol, resp, clock, rnd) ==
    CASE resp.kind \in {"networkError", "notOk", "badJson"} -> Throws(symbol)
      [] resp.kind = "empty" -> tryAlternativeExchange(symbol, clock, rnd)
      [] resp.kind = "sentinel" -> tryAlternativeExchange(symbol, clock, rnd)
      [] resp.kind = "noSeries" ->
            Returns(symbol, generateMockStockData(symbol, MockDays, clock, rnd), TRUE)
      [] resp.kind = "ok" ->
            Returns(symbol, transformTimeSeries(resp.timeSeries), FALSE)

\* a faulty variant of the catch block: the exception is rethrown
fetchStockData_catch_rethrow(symbol, clock, rnd) == Throws(symbol)

fetchStockData_catch(symbol, clock, rnd) ==
    Returns(symbol, generateMockStockData(symbol, MockDays, clock, rnd), TRUE)

fetchStockData(symbol, resp, clock, rnd) ==
    LET r == fetchStockData_try(symbol, resp, clock, rnd)
    IN IF r.kind = "throw" THEN fetchStockData_catch(symbol, clock, rnd) ELSE r

(***************************************************************************)
(* Initial values of the three groups of variables.                        *)
(***************************************************************************)
NoSymbol == Sym("", "")

InitFetchVars ==
    /\ entry = "none" /\ rawQuery = NoSymbol /\ fpc = "idle"
    /\ fSymbol = NoSymbol /\ attempts = <<>> /\ outcomes = <<>>
    /\ payload = <<>> /\ fSeries = <<>> /\ fSynthetic = FALSE
    /\ fThrown = FALSE /\ demoToasts = 0 /\ mockClock = NoValue

NoDisplay == [sym |-> NoSymbol, task |-> 0]

InitPageVars ==
    /\ isLoading = FALSE /\ currentSymbol = NoSymbol
    /\ stockData = NoDisplay /\ metrics = NoDisplay
    /\ predictions = NoDisplay /\ news = NoDisplay
    /\ stockProfile = NoDisplay
    /\ tasks = <<>> /\ lastWriter = [task |-> 0, superseded |-> FALSE]

InitPredictVars ==
    /\ ppc = "idle" /\ pInput = NoValue /\ pOutput = <<>> /\ pThrown = FALSE
    /\ pValue = 0 /\ pCalls = <<>>

InitNewsVars ==
    /\ npc = "idle" /\ nSymbol = NoSymbol /\ nResponse = NoValue
    /\ nItems = <<>> /\ nThrown = FALSE

InitOverviewVars ==
    /\ opc = "idle" /\ oSymbol = NoSymbol /\ oSynthetic = FALSE
    /\ oResponse = NoValue /\ oProfile = NoValue /\ oThrown = FALSE

InitMockVars == mpc = "idle" /\ mInput = NoValue /\ mPoint = NoValue

InitChartVars ==
    /\ isLiveUpdate = FALSE /\ isMarketOpen = FALSE
    /\ connectionStatus = "online" /\ isUpdating = FALSE
    /\ liveUpdateInterval = FALSE /\ refreshesInFlight = <<>>

\* a first visit: nothing is stored, both initialisers fall back to empty
InitWatchlistVars ==
    /\ localStorage = [watchlist |-> <<>>, favorites |-> <<>>]
    /\ watchlist = <<>> /\ favoriteStocks = <<>>
    /\ selectedMarket = "US" /\ newSymbol = "" /\ watchlistToast = "none"

InitRestVars ==
    InitOverviewVars /\ InitMockVars /\ InitChartVars /\ InitWatchlistVars

(***************************************************************************)
(* SpecFetch: a symbol enters through the search box, a quick-search       *)
(* button or a watchlist entry, Index.handleSearch upper-cases it and      *)
(* calls fetchStockData; the provider answers each transport call.         *)
(***************************************************************************)
Typed(b, x, lower, pad) == [base |-> b, suffix |-> x, lower |-> lower, pad |-> pad]

\* what the user types into the search box
TypedQueries ==
    { Typed("", "", FALSE, FALSE), Typed("", "", FALSE, TRUE),
      Typed("RELIANCE", "", FALSE, FALSE), Typed("RELIANCE", "", TRUE, TRUE),
      Typed("RELIANCE", "NS", FALSE, FALSE), Typed("RELIANCE", "BSE", FALSE, FALSE),
      Typed("WIPRO", "", FALSE, FALSE), Typed("WIPRO", "BSE", TRUE, FALSE),
      Typed("AAPL", "", FALSE, FALSE), Typed("AAPL", "", TRUE, TRUE),
      Typed("NFLX", "", FALSE, FALSE), Typed("F", "", FALSE, FALSE) }

\* the call fetchStockData(symbol) made by Index.handleSearch(query)
StartFetch(how, raw, query) ==
    /\ entry' = how
    /\ rawQuery' = raw
    /\ fpc' = "fetching"
    /\ fSymbol' = Index_symbol(query)
    /\ attempts' = <<Index_symbol(query)>>
    /\ UNCHANGED <<outcomes, payload, fSeries, fSynthetic, fThrown,
                   demoToasts, mockClock>>

SearchBoxSubmit ==
    /\ fpc = "idle"
    /\ \E q \in TypedQueries :
          LET searchSymbol == StockSearch_handleSearch(q)
          IN IF searchSymbol = NoValue
             THEN /\ entry' = "searchbox" /\ rawQuery' = q /\ fpc' = "rejected"
                  /\ UNCHANGED <<fSymbol, attempts, outcomes, payload, fSeries,
                                 fSynthetic, fThrown, demoToasts, mockClock>>
             ELSE StartFetch("searchbox", q, searchSymbol)
    /\ UNCHANGED <<pageVars, predictVars, newsVars, restVars>>

\* StockSearch.handleQuickSearch(stock.symbol)
QuickSearch ==
    /\ fpc = "idle"
    /\ \E i \in 1..Len(popularStocks) :
          StartFetch("quick", popularStocks[i], popularStocks[i])
    /\ UNCHANGED <<pageVars, predictVars, newsVars, restVars>>

\* Watchlist: onSelectStock(stock.symbol) on a popular-stock row
WatchlistSelect ==
    /\ fpc = "idle"
    /\ \E stock \in { INDIAN_POPULAR_STOCKS[i] : i \in 1..2 }
                    \cup { US_POPULAR_STOCKS[i] : i \in 1..2 } :
          StartFetch("watchlist", stock, stock)
    /\ UNCHANGED <<pageVars, predictVars, newsVars, restVars>>

\* new Date() is evaluated in generateMockStockData only: an answer that
\* holds a time series reads no clock
ClocksRead(resp) ==
    IF resp.kind = "ok" THEN {CHOOSE c \in SteadyClocks : TRUE} ELSE Clocks

\* the running invocation receives resp and runs to its return
Answer(resp) ==
    /\ \E clock \in ClocksRead(resp), rnd \in MockDraws :
        \E r \in {fetchStockData(fSymbol, resp, clock, rnd)} :
             /\ outcomes' = Append(outcomes, resp.kind)
             /\ IF r.kind = "recurse"
                THEN /\ Len(attempts) < MaxAttempts
                     /\ fSymbol' = r.next
                     /\ attempts' = Append(attempts, r.next)
                     /\ UNCHANGED <<fpc, payload, fSeries, fSynthetic,
                                    fThrown, demoToasts, mockClock>>
                ELSE /\ fpc' = "done"
                     /\ fThrown' = (r.kind = "throw")
                     /\ fSeries' = r.series
                     /\ fSynthetic' = r.synthetic
                     /\ demoToasts' = demoToasts + r.toasts
                     /\ mockClock' = IF r.synthetic THEN clock ELSE mockClock
                     /\ payload' = resp.timeSeries
                     /\ UNCHANGED <<fSymbol, attempts>>
    /\ UNCHANGED <<entry, rawQuery>>
    /\ UNCHANGED <<pageVars, predictVars, newsVars, restVars>>

NetworkError ==
    /\ fpc = "fetching"
    /\ Answer(Response("networkError", <<>>))

NonOkStatus ==
    /\ fpc = "fetching"
    /\ Answer(Response("notOk", <<>>))

UnparsableBody ==
    /\ fpc = "fetching"
    /\ Answer(Response("badJson", <<>>))

EmptyPayload ==
    /\ fpc = "fetching"
    /\ Answer(Response("empty", <<>>))

ErrorSentinel ==
    /\ fpc = "fetching"
    /\ Answer(Response("sentinel", <<>>))

NoTimeSeries ==
    /\ fpc = "fetching"
    /\ Answer(Response("noSeries", <<>>))

TimeSeriesReturned ==
    /\ fpc = "fetching"
    /\ \E ts \in TimeSeriesPayloads : Answer(Response("ok", ts))


InitFetch == InitFetchVars /\ InitPageVars /\ InitPredictVars /\ InitNewsVars /\ InitRestVars

NextFetch ==
    \/ SearchBoxSubmit
    \/ QuickSearch
    \/ WatchlistSelect
    \/ NetworkError
    \/ NonOkStatus
    \/ UnparsableBody
    \/ EmptyPayload
    \/ ErrorSentinel
    \/ NoTimeSeries
    \/ TimeSeriesReturned

SpecFetch == InitFetch /\ [][NextFetch]_vars

(***************************************************************************)
(* Properties checked under SpecFetch.                                     *)
(***************************************************************************)
StrictlyAscending(s) == \A i \in 1..(Len(s) - 1) : s[i].date < s[i + 1].date

C2_AtMostTwoAttempts ==
    (Len(attempts) >= 1 /\ isIndianStock(attempts[1])) => Len(attempts) <= 2

\* C5: when the answer for the first candidate of an exchange-qualified
\* symbol is a failure of any of the four kinds, the sibling candidate is
\* attempted; a synthetic series is returned only after both were attempted.
C5_EveryFailureAdvances ==
    (Len(outcomes) >= 1 /\ isIndianStock(attempts[1])
        /\ outcomes[1] \in FailureKinds)
    => Len(attempts) >= 2

\* C6: for the unqualified symbol RELIANCE, entered by the search box or by
\* the watchlist, a synthetic series returned after an empty payload for the
\* first candidate was preceded by attempts for RELIANCE and then
\* RELIANCE.NS.
C6_SuffixedTriedBeforeSynthetic ==
    (/\ entry \in {"searchbox", "watchlist"}
     /\ rawQuery = Sym("RELIANCE", "")
     /\ fpc = "done" /\ fSynthetic /\ outcomes[1] = "empty")
    => (/\ Len(attempts) >= 2
        /\ attempts[1] = Sym("RELIANCE", "")
        /\ attempts[2] = Sym("RELIANCE", "NS"))

\* C7: every series fetchStockData returns, real or synthetic, is strictly
\* ascending by date (so no two points share a date), whatever the key
\* order of the payload.
C7_StrictlyAscendingByDate ==
    fpc = "done" => StrictlyAscending(fSeries)

(***************************************************************************)
(* SpecPage: the Index page.  handleSearch and refreshCurrentStock are     *)
(* async functions; each runs atomically from one await to the next, and   *)
(* any number of invocations may be between two awaits at the same time.   *)
(* A value written to the display state is tagged with the symbol and the  *)
(* invocation it was computed for.  fetchStockData, fetchCompanyOverview,  *)
(* fetchStockNews and fetchMetrics always resolve with a value here: none  *)
(* of them lets an exception out.                                          *)
(***************************************************************************)
PageSymbols == {Sym("AAPL", ""), Sym("RELIANCE", "NS")}

\* one invocation of a handler: where it is, which state slots it has set,
\* which of its awaited calls rejected, its local variable stockData (or
\* freshStockData), the series it passed to fetchMetrics and to
\* generatePredictions, and which of its overview and news fetches have
\* settled while Promise.all is awaited
Task(kind, symbol, pc) ==
    [kind |-> kind, sym |-> symbol, pc |-> pc, stored |-> {}, rejected |-> {},
     localData |-> NoDisplay, metricsArg |-> NoDisplay,
     predictArg |-> NoDisplay, settled |-> {}]
Shown(t) == [sym |-> tasks[t].sym, task |-> t]

\* a faulty variant of the argument: the page state is read, not the local
seriesPassed_pageState(local) == stockData

\* the series argument of fetchMetrics and generatePredictions: the local
\* variable assigned from fetchStockData
seriesPassed(local) == local

\* a search for another symbol was started after invocation t
Superseded(t) ==
    \E u \in (t + 1)..Len(tasks) :
        tasks[u].kind = "search" /\ tasks[u].sym # tasks[t].sym

Wrote(t) == lastWriter' = [task |-> t, superseded |-> Superseded(t)]

\* Index.handleSearch(query) up to its first await
handleSearch(query) ==
    /\ Len(tasks) < MaxTasks
    /\ isLoading' = TRUE
    /\ currentSymbol' = Index_symbol(query)
    /\ tasks' = Append(tasks, Task("search", Index_symbol(query), "awaitStockData"))
    /\ UNCHANGED <<stockData, metrics, predictions, news, stockProfile,
                   lastWriter>>

\* the search form: its submit button is disabled while isLoading
SubmitSearchBox ==
    /\ ~isLoading
    /\ \E q \in PageSymbols : handleSearch(q)
    /\ UNCHANGED <<fetchVars, predictVars, newsVars, restVars>>

\* a quick-search button or a watchlist row: never disabled
SelectStock ==
    /\ \E q \in PageSymbols : handleSearch(q)
    /\ UNCHANGED <<fetchVars, predictVars, newsVars, restVars>>

\* handleSearch: fetchStockData resolved; setStockData, then the overview
\* and the news are requested together
SearchStockDataReturned ==
    /\ \E t \in 1..Len(tasks) :
          /\ tasks[t].kind = "search" /\ tasks[t].pc = "awaitStockData"
          /\ stockData' = Shown(t)
          /\ tasks' = [tasks EXCEPT ![t].pc = "awaitOverviewNews",
                                    ![t].stored = @ \cup {"stockData"},
                                    ![t].localData = Shown(t)]
          /\ Wrote(t)
    /\ UNCHANGED <<isLoading, currentSymbol, metrics, predictions, news,
                   stockProfile>>
    /\ UNCHANGED <<fetchVars, predictVars, newsVars, restVars>>

\* the two members of Promise.all: each settles on its own
ParallelCalls == {"overview", "news"}

\* handleSearch: fetchCompanyOverview or fetchStockNews resolved while
\* Promise.all is awaited
SearchParallelCallSettled ==
    /\ \E t \in 1..Len(tasks) :
          /\ tasks[t].kind = "search" /\ tasks[t].pc = "awaitOverviewNews"
          /\ \E c \in ParallelCalls \ tasks[t].settled :
                tasks' = [tasks EXCEPT ![t].settled = @ \cup {c}]
    /\ UNCHANGED <<isLoading, currentSymbol, stockData, metrics, predictions,
                   news, stockProfile, lastWriter>>
    /\ UNCHANGED <<fetchVars, predictVars, newsVars, restVars>>

\* handleSearch: Promise.all resolved; setStockProfile, setNews, then
\* fetchMetrics is called
SearchOverviewNewsReturned ==
    /\ \E t \in 1..Len(tasks) :
          /\ tasks[t].kind = "search" /\ tasks[t].pc = "awaitOverviewNews"
          /\ tasks[t].settled = ParallelCalls
          /\ stockProfile' = Shown(t)
          /\ news' = Shown(t)
          /\ tasks' = [tasks EXCEPT ![t].pc = "awaitMetrics",
                                    ![t].stored = @ \cup {"stockProfile", "news"},
                                    ![t].settled = {},
                                    ![t].metricsArg = seriesPassed(tasks[t].localData)]
          /\ Wrote(t)
    /\ UNCHANGED <<isLoading, currentSymbol, stockData, metrics, predictions>>
    /\ UNCHANGED <<fetchVars, predictVars, newsVars, restVars>>

\* a faulty variant of the inner catch blocks: the search is given up, as
\* with one try block around the whole handler
continuesAfterError_abort(step) == FALSE

\* the catch blocks of lines 216-219 and 226-229: "Continue with partial data"
continuesAfterError(step) == TRUE

\* handleSearch: Promise.all rejected; nothing is set, the handler goes on
\* to fetchMetrics
SearchOverviewNewsRejected ==
    /\ \E t \in 1..Len(tasks) :
          /\ tasks[t].kind = "search" /\ tasks[t].pc = "awaitOverviewNews"
          /\ tasks' = [tasks EXCEPT
                         ![t].pc = IF continuesAfterError("overviewNews")
                                   THEN "awaitMetrics" ELSE "finished",
                         ![t].rejected = @ \cup {"overviewNews"},
                         ![t].settled = {},
                         ![t].metricsArg =
                             IF continuesAfterError("overviewNews")
                             THEN seriesPassed(tasks[t].localData) ELSE @]
          /\ isLoading' = IF continuesAfterError("overviewNews")
                          THEN isLoading ELSE FALSE
    /\ UNCHANGED <<currentSymbol, stockData, metrics, predictions, news,
                   stockProfile, lastWriter>>
    /\ UNCHANGED <<fetchVars, predictVars, newsVars, restVars>>

\* handleSearch: fetchMetrics resolved; setMetrics, generatePredictions,
\* setPredictions, setIsLoading(false)
SearchMetricsReturned ==
    /\ \E t \in 1..Len(tasks) :
          /\ tasks[t].kind = "search" /\ tasks[t].pc = "awaitMetrics"
          /\ metrics' = Shown(t)
          /\ predictions' = Shown(t)
          /\ isLoading' = FALSE
          /\ tasks' = [tasks EXCEPT ![t].pc = "finished",
                                    ![t].stored = @ \cup {"metrics", "predictions"},
                                    ![t].predictArg = seriesPassed(tasks[t].localData)]
          /\ Wrote(t)
    /\ UNCHANGED <<currentSymbol, stockData, news, stockProfile>>
    /\ UNCHANGED <<fetchVars, predictVars, newsVars, restVars>>

\* handleSearch: fetchMetrics rejected; setMetrics is skipped, then
\* generatePredictions, setPredictions, setIsLoading(false)
SearchMetricsRejected ==
    /\ \E t \in 1..Len(tasks) :
          /\ tasks[t].kind = "search" /\ tasks[t].pc = "awaitMetrics"
          /\ IF continuesAfterError("metrics")
             THEN /\ predictions' = Shown(t)
                  /\ tasks' = [tasks EXCEPT ![t].pc = "finished",
                                 ![t].stored = @ \cup {"predictions"},
                                 ![t].rejected = @ \cup {"metrics"},
                                 ![t].predictArg = seriesPassed(tasks[t].localData)]
                  /\ Wrote(t)
             ELSE /\ tasks' = [tasks EXCEPT ![t].pc = "finished",
                                 ![t].rejected = @ \cup {"metrics"}]
                  /\ UNCHANGED <<predictions, lastWriter>>
          /\ isLoading' = FALSE
    /\ UNCHANGED <<currentSymbol, stockData, metrics, news, stockProfile>>
    /\ UNCHANGED <<fetchVars, predictVars, newsVars, restVars>>

\* refreshCurrentStock up to its first await; StockChart, which calls it,
\* is rendered only when a series and a profile are displayed
RefreshStart ==
    /\ Len(tasks) < MaxTasks
    /\ stockData # NoDisplay /\ stockProfile # NoDisplay
    /\ currentSymbol # NoSymbol
    /\ tasks' = Append(tasks, Task("refresh", currentSymbol, "awaitStockData"))
    /\ UNCHANGED <<isLoading, currentSymbol, stockData, metrics, predictions,
                   news, stockProfile, lastWriter>>
    /\ UNCHANGED <<fetchVars, predictVars, newsVars, restVars>>

\* refreshCurrentStock: fetchStockData resolved; setStockData,
\* generatePredictions, setPredictions, then fetchMetrics is called
RefreshStockDataReturned ==
    /\ \E t \in 1..Len(tasks) :
          /\ tasks[t].kind = "refresh" /\ tasks[t].pc = "awaitStockData"
          /\ stockData' = Shown(t)
          /\ predictions' = Shown(t)
          /\ tasks' = [tasks EXCEPT ![t].pc = "awaitMetrics",
                                    ![t].stored = @ \cup {"stockData", "predictions"},
                                    ![t].localData = Shown(t),
                                    ![t].predictArg = seriesPassed(Shown(t)),
                                    ![t].metricsArg = seriesPassed(Shown(t))]
          /\ Wrote(t)
    /\ UNCHANGED <<isLoading, currentSymbol, metrics, news, stockProfile>>
    /\ UNCHANGED <<fetchVars, predictVars, newsVars, restVars>>

\* refreshCurrentStock: fetchMetrics resolved; setMetrics
RefreshMetricsReturned ==
    /\ \E t \in 1..Len(tasks) :
          /\ tasks[t].kind = "refresh" /\ tasks[t].pc = "awaitMetrics"
          /\ metrics' = Shown(t)
          /\ tasks' = [tasks EXCEPT ![t].pc = "finished",
                                    ![t].stored = @ \cup {"metrics"}]
          /\ Wrote(t)
    /\ UNCHANGED <<isLoading, currentSymbol, stockData, predictions, news,
                   stockProfile>>
    /\ UNCHANGED <<fetchVars, predictVars, newsVars, restVars>>

InitPage == InitFetchVars /\ InitPageVars /\ InitPredictVars /\ InitNewsVars /\ InitRestVars

NextPage ==
    \/ SubmitSearchBox
    \/ SelectStock
    \/ SearchStockDataReturned
    \/ SearchParallelCallSettled
    \/ SearchOverviewNewsReturned
    \/ SearchOverviewNewsRejected
    \/ SearchMetricsReturned
    \/ SearchMetricsRejected
    \/ RefreshStart
    \/ RefreshStockDataReturned
    \/ RefreshMetricsReturned

SpecPage == InitPage /\ [][NextPage]_vars

(***************************************************************************)
(* SpecPageLive: the page with calls that may never settle, and with the   *)
(* event loop running the continuation of every await whose call settled.  *)
(***************************************************************************)
\* an awaited call never settles: fetch is called without a timeout or an
\* abort signal, and fetchStockData may alternate between exchanges for ever
AwaitPoints == {"awaitStockData", "awaitOverviewNews", "awaitMetrics"}

CallNeverAnswers ==
    /\ \E t \in 1..Len(tasks) :
          /\ tasks[t].pc \in AwaitPoints
          /\ tasks' = [tasks EXCEPT ![t].pc = "unanswered"]
    /\ UNCHANGED <<isLoading, currentSymbol, stockData, metrics, predictions,
                   news, stockProfile, lastWriter>>
    /\ UNCHANGED <<fetchVars, predictVars, newsVars, restVars>>

NextPageLive ==
    \/ SubmitSearchBox
    \/ SelectStock
    \/ SearchStockDataReturned
    \/ SearchParallelCallSettled
    \/ SearchOverviewNewsReturned
    \/ SearchOverviewNewsRejected
    \/ SearchMetricsReturned
    \/ SearchMetricsRejected
    \/ RefreshStart
    \/ RefreshStockDataReturned
    \/ RefreshMetricsReturned
    \/ CallNeverAnswers

SpecPageLive ==
    /\ InitPage /\ [][NextPageLive]_vars
    /\ WF_vars(SearchStockDataReturned)
    /\ WF_vars(SearchParallelCallSettled)
    /\ WF_vars(SearchOverviewNewsReturned \/ SearchOverviewNewsRejected)
    /\ WF_vars(SearchMetricsReturned \/ SearchMetricsRejected)
    /\ WF_vars(RefreshStockDataReturned)
    /\ WF_vars(RefreshMetricsReturned)

(***************************************************************************)
(* Properties checked under SpecPage.                                      *)
(***************************************************************************)
DisplaySlots == {stockData, metrics, predictions, news, stockProfile}
AllFinished == \A t \in 1..Len(tasks) : tasks[t].pc = "finished"

\* C3: in every reachable state the displayed series, predictions, metrics,
\* profile and news that are set all belong to one and the same symbol.
C3_ResultSetOfOneSymbol ==
    \A a, b \in DisplaySlots :
        (a # NoDisplay /\ b # NoDisplay) => a.sym = b.sym

\* C4: no invocation writes to the display state after a search for another
\* symbol was started, and once every invocation has finished the whole
\* displayed result set is that of the search started last.
C4_SupersededIsCancelled ==
    /\ ~lastWriter.superseded
    /\ (AllFinished /\ tasks # <<>>) =>
          \A a \in DisplaySlots : a.sym = currentSymbol

(***************************************************************************)
(* The forecasting functions of api.ts.  Prices are integer cents.         *)
(* Fractions (returns, momentum, volatility, trend terms, confidence) are  *)
(* integers in units of 1/FracUnit.  A percent change is an integer in     *)
(* units of 1/FracUnit percent.  Math.random() is a draw in 0..999, in     *)
(* units of 1/FracUnit.  Closes are positive, so no division by zero and   *)
(* no NaN arises.                                                          *)
(***************************************************************************)
SmaUnit == 4 * 5     \* an average is kept in units of 1/SmaUnit cent

\* floor(a * b / c + 1/2) for c > 0, without forming a * b
RoundMulDiv(a, b, c) == (a \div c) * b + (2 * (a % c) * b + c) \div (2 * c)

Closes(data) == [i \in 1..Len(data) |-> data[i].close]

\* Array.prototype.slice(-n)
sliceLast(data, n) ==
    IF Len(data) <= n THEN data ELSE SubSeq(data, Len(data) - n + 1, Len(data))

\* a faulty variant of the window: the first `period` points, slice(0, period)
calculateSMA_oldest(data, period) ==
    IF Len(data) < period THEN 0
    ELSE (SumSeq(Closes(SubSeq(data, 1, period))) * SmaUnit) \div period

calculateSMA(data, period) ==
    IF Len(data) < period THEN 0
    ELSE (SumSeq(Closes(sliceLast(data, period))) * SmaUnit) \div period

dailyReturns(data) ==
    [i \in 1..(Len(data) - 1) |->
        ((data[i + 1].close - data[i].close) * FracUnit) \div data[i].close]

\* a faulty variant of the guard: a default of 2 % for a series too short
calculateVolatility_defaultGuard(data) ==
    IF Len(data) < 2 THEN FracUnit \div 50
    ELSE LET returns == dailyReturns(data)
             mean == SumSeq(returns) \div Len(returns)
             squaredDiffs == [i \in 1..Len(returns) |->
                                (returns[i] - mean) * (returns[i] - mean)]
             variance == SumSeq(squaredDiffs) \div Len(returns)
         IN ISqrt(variance)

calculateVolatility(data) ==
    IF Len(data) < 2 THEN 0
    ELSE LET returns == dailyReturns(data)
             mean == SumSeq(returns) \div Len(returns)
             squaredDiffs == [i \in 1..Len(returns) |->
                                (returns[i] - mean) * (returns[i] - mean)]
             variance == SumSeq(squaredDiffs) \div Len(returns)
         IN ISqrt(variance)

\* a faulty variant of the thresholds: >= in place of >
Recommendation_ge(priceChangePercent) ==
    IF priceChangePercent >= 5 * FracUnit THEN "Strong Buy"
    ELSE IF 2 * priceChangePercent >= 3 * FracUnit THEN "Buy"
    ELSE IF 2 * priceChangePercent >= -3 * FracUnit THEN "Hold"
    ELSE IF priceChangePercent >= -5 * FracUnit THEN "Sell"
    ELSE "Strong Sell"

\* the if / else-if chain of generatePrediction; 1.5 is 3/2
Recommendation(priceChangePercent) ==
    IF priceChangePercent > 5 * FracUnit THEN "Strong Buy"
    ELSE IF 2 * priceChangePercent > 3 * FracUnit THEN "Buy"
    ELSE IF 2 * priceChangePercent > -3 * FracUnit THEN "Hold"
    ELSE IF priceChangePercent > -5 * FracUnit THEN "Sell"
    ELSE "Strong Sell"

\* a faulty variant of the clamp: the Math.max floor is missing
clampConfidence_noFloor(x) == Min((95 * FracUnit) \div 100, x)

\* Math.max(0.3, Math.min(0.95, x))
clampConfidence(x) ==
    Max((3 * FracUnit) \div 10, Min((95 * FracUnit) \div 100, x))

Prediction(timeframe, predictedPrice, confidence, recommendation, reasoning) ==
    [timeframe |-> timeframe, predictedPrice |-> predictedPrice,
     confidence |-> confidence, recommendation |-> recommendation,
     reasoning |-> reasoning]

\* sma5 > currentPrice ? -0.01 : 0.01
shortTermTrend(sma5, currentPrice) ==
    IF sma5 > currentPrice * SmaUnit
    THEN -(FracUnit \div 100) ELSE FracUnit \div 100

\* sma20 > currentPrice ? -0.005 : 0.005
longTermTrend(sma20, currentPrice) ==
    IF sma20 > currentPrice * SmaUnit
    THEN -(FracUnit \div 200) ELSE FracUnit \div 200

generatePrediction(timeframe, daysFuture, currentPrice, sma5, sma20, momentum, volatility, random) ==
    LET momentumEffect == momentum * 3
        uncertaintyFactor == FracUnit + (daysFuture * FracUnit) \div 50
        volatilityEffect == volatility * daysFuture * 2
        baseChange ==
            (shortTermTrend(sma5, currentPrice)
               + longTermTrend(sma20, currentPrice) + momentumEffect) * daysFuture
        randomNoise ==
            MulDiv(MulDiv(random - FracUnit \div 2, volatilityEffect, FracUnit),
                   uncertaintyFactor, FracUnit)
        predictedChangePercent == baseChange + randomNoise
        predictedPrice ==
            RoundMulDiv(FracUnit + predictedChangePercent, currentPrice, FracUnit)
        confidenceBase == (85 * FracUnit) \div 100
        confidenceAdjustment == (daysFuture * FracUnit) \div 100 + volatility * 5
        confidence == clampConfidence(confidenceBase - confidenceAdjustment)
        priceChangePercent ==
            MulDiv(predictedPrice - currentPrice, 100 * FracUnit, currentPrice)
    IN Prediction(timeframe, predictedPrice, confidence,
                  Recommendation(priceChangePercent),
                  [text |-> "projected", percent |-> priceChangePercent])

\* a StockData[] argument; present is FALSE for null / undefined
Series(points) == [present |-> TRUE, points |-> points]
MissingSeries == [present |-> FALSE, points |-> <<>>]

insufficientPrediction(timeframe) ==
    Prediction(timeframe, 0, (3 * FracUnit) \div 10, "Hold",
               [text |-> "Insufficient data to make a prediction."])

\* a faulty variant of the length check: fewer than 5 in place of 10
hasInsufficientData_lt5(series) ==
    ~series.present \/ Len(series.points) < 5

\* !stockData || stockData.length < 10
hasInsufficientData(series) ==
    ~series.present \/ Len(series.points) < 10

\* a faulty variant of the lookback: one point later, length - back + 1
lookbackClose_oneLater(recentData, back) ==
    recentData[Max(Len(recentData) - back + 1, 0) + 1].close

\* close of recentData[Math.max(recentData.length - back, 0)]
lookbackClose(recentData, back) ==
    recentData[Max(Len(recentData) - back, 0) + 1].close

priceChange(recentData, back) ==
    LET currentPrice == recentData[Len(recentData)].close
        ref == lookbackClose(recentData, back)
    IN ((currentPrice - ref) * FracUnit) \div ref

\* the result of a call: the value returned, or an exception
Predicted(preds, calls) ==
    [thrown |-> FALSE, predictions |-> preds, calls |-> calls]
PredictThrows == [thrown |-> TRUE, predictions |-> <<>>, calls |-> <<>>]

\* one call of generatePrediction: its arguments
PredictionCall(timeframe, daysFuture, currentPrice, sma5, sma20, momentum, volatility) ==
    [timeframe |-> timeframe, daysFuture |-> daysFuture,
     currentPrice |-> currentPrice, sma5 |-> sma5, sma20 |-> sma20,
     momentum |-> momentum, volatility |-> volatility]

\* the signals of a series and the three calls made with them
predictionCalls(points) ==
    LET recentData == sliceLast(points, 30)
        currentPrice == recentData[Len(recentData)].close
        sma5 == calculateSMA(recentData, 5)
        sma20 == calculateSMA(recentData, 20)
        priceChange7d == priceChange(recentData, 8)
        priceChange14d == priceChange(recentData, 15)
        volatility == calculateVolatility(recentData)
    IN <<PredictionCall("Tomorrow", 1, currentPrice, sma5, sma20,
                        priceChange7d, volatility),
         PredictionCall("Next Week", 7, currentPrice, sma5, sma20,
                        priceChange7d, volatility),
         PredictionCall("Next Month", 30, currentPrice, sma5, sma20,
                        priceChange14d, volatility)>>

generatePredictionCalled(c, random) ==
    generatePrediction(c.timeframe, c.daysFuture, c.currentPrice, c.sma5,
                       c.sma20, c.momentum, c.volatility, random)

\* a call together with the trend terms generatePrediction chose in it
TrendsChosen(c) ==
    [timeframe |-> c.timeframe, daysFuture |-> c.daysFuture,
     currentPrice |-> c.currentPrice, sma5 |-> c.sma5, sma20 |-> c.sma20,
     momentum |-> c.momentum, volatility |-> c.volatility,
     shortTermTrend |-> shortTermTrend(c.sma5, c.currentPrice),
     longTermTrend |-> longTermTrend(c.sma20, c.currentPrice)]

generatePredictions(symbol, series, draws) ==
    IF hasInsufficientData(series)
    THEN Predicted(<<insufficientPrediction("Tomorrow"),
                     insufficientPrediction("Next Week"),
                     insufficientPrediction("Next Month")>>, <<>>)
    ELSE IF ~series.present \/ series.points = <<>>
    THEN PredictThrows    \* null.slice, or .close of undefined
    ELSE LET calls == predictionCalls(series.points)
         IN Predicted([i \in 1..3 |-> generatePredictionCalled(calls[i], draws[i])],
                      calls)

(***************************************************************************)
(* SpecPredict: one call of generatePredictions on a series, or one call   *)
(* of generatePrediction on signals given directly.                        *)
(***************************************************************************)
ClosePrices == {1000, 1250}
PredictDraws == {0, 500, 999}

PointsOf(closes) == [i \in 1..Len(closes) |-> StockPoint(i, closes[i])]

\* every series of at most MaxSeriesLen points over ClosePrices
EnumeratedCloses == UNION {[1..n -> ClosePrices] : n \in 0..MaxSeriesLen}

\* longer series with one step in them, up or down
StepCloses(n, k, before, after) ==
    [i \in 1..n |-> IF i <= k THEN before ELSE after]
StepSeriesCloses ==
    {StepCloses(n, k, c[1], c[2]) :
        n \in {20, 31, 33}, k \in {0, 1, 5, 16, 18, 25, 30},
        c \in {<<1000, 1250>>, <<1250, 1000>>}}

SeriesInputs ==
    {Series(PointsOf(c)) : c \in EnumeratedCloses \cup StepSeriesCloses}
        \cup {MissingSeries}

CallGeneratePredictions ==
    /\ ppc = "idle"
    /\ \E series \in SeriesInputs, draws \in [1..3 -> PredictDraws] :
          \E r \in {generatePredictions(Sym("AAPL", ""), series, draws)} :
             /\ pInput' = [call |-> "generatePredictions", stockData |-> series]
             /\ pOutput' = r.predictions
             /\ pThrown' = r.thrown
             /\ pCalls' = [i \in 1..Len(r.calls) |-> TrendsChosen(r.calls[i])]
    /\ ppc' = "done"
    /\ UNCHANGED <<fetchVars, pageVars, newsVars, restVars, pValue>>

HorizonInputs == {1, 7, 30, 500}
SignalPrice == 10 * 100
SmaInputs == {0, (SignalPrice - 50) * SmaUnit, SignalPrice * SmaUnit,
              (SignalPrice + 50) * SmaUnit}
MomentumInputs == {-100, -15, 0, 5, 15, 100}
VolatilityInputs == {0, 20, 100, 1100}

CallGeneratePrediction ==
    /\ ppc = "idle"
    /\ \E daysFuture \in HorizonInputs, sma5 \in SmaInputs, sma20 \in SmaInputs,
          momentum \in MomentumInputs, volatility \in VolatilityInputs,
          random \in PredictDraws :
          /\ pInput' = [call |-> "generatePrediction",
                        daysFuture |-> daysFuture, currentPrice |-> SignalPrice,
                        sma5 |-> sma5, sma20 |-> sma20, momentum |-> momentum,
                        volatility |-> volatility]
          /\ pOutput' = <<generatePrediction("Tomorrow", daysFuture, SignalPrice,
                                             sma5, sma20, momentum, volatility,
                                             random)>>
          /\ pCalls' = <<TrendsChosen(PredictionCall("Tomorrow", daysFuture,
                              SignalPrice, sma5, sma20, momentum, volatility))>>
          /\ pThrown' = FALSE
    /\ ppc' = "done"
    /\ UNCHANGED <<fetchVars, pageVars, newsVars, restVars, pValue>>

\* the StockData[] arguments of the helper functions
DataInputs == {PointsOf(c) : c \in EnumeratedCloses \cup StepSeriesCloses}
PeriodInputs == {5, 20}

CallCalculateSMA ==
    /\ ppc = "idle"
    /\ \E data \in DataInputs, period \in PeriodInputs :
          /\ pInput' = [call |-> "calculateSMA", data |-> data, period |-> period]
          /\ pValue' = calculateSMA(data, period)
    /\ ppc' = "returned"
    /\ UNCHANGED <<fetchVars, pageVars, newsVars, restVars, pOutput, pThrown, pCalls>>

CallCalculateVolatility ==
    /\ ppc = "idle"
    /\ \E data \in DataInputs :
          /\ pInput' = [call |-> "calculateVolatility", data |-> data]
          /\ pValue' = calculateVolatility(data)
    /\ ppc' = "returned"
    /\ UNCHANGED <<fetchVars, pageVars, newsVars, restVars, pOutput, pThrown, pCalls>>

InitPredict == InitFetchVars /\ InitPageVars /\ InitPredictVars /\ InitNewsVars /\ InitRestVars

NextPredict ==
    \/ CallGeneratePredictions
    \/ CallGeneratePrediction
    \/ CallCalculateSMA
    \/ CallCalculateVolatility

SpecPredict == InitPredict /\ [][NextPredict]_vars

(***************************************************************************)
(* Properties checked under SpecPredict.                                   *)
(***************************************************************************)
CalledOnSeries == ppc = "done" /\ pInput.call = "generatePredictions"
CalledOnSignals == ppc = "done" /\ pInput.call = "generatePrediction"

\* C8: for every series of fewer than 10 points, the empty and the missing
\* series included, generatePredictions does not throw and returns exactly
\* three predictions, one per horizon, each Hold with confidence 0.30.
C8_InsufficientHistory ==
    (CalledOnSeries
       /\ (~pInput.stockData.present \/ Len(pInput.stockData.points) < 10))
    => /\ ~pThrown
       /\ Len(pOutput) = 3
       /\ <<pOutput[1].timeframe, pOutput[2].timeframe, pOutput[3].timeframe>>
             = <<"Tomorrow", "Next Week", "Next Month">>
       /\ \A i \in 1..3 :
             pOutput[i].recommendation = "Hold" /\ pOutput[i].confidence = 300

C8_Witness ==
    /\ CalledOnSeries
    /\ pInput.stockData.present /\ Len(pInput.stockData.points) = 9
    /\ ~pThrown /\ Len(pOutput) = 3
    /\ \A i \in 1..3 :
          pOutput[i].recommendation = "Hold" /\ pOutput[i].confidence = 300

\* C9: the recommendation of a computed prediction is fixed by its percent
\* change alone: above 5 Strong Buy; above 1.5 up to 5 Buy; above -1.5 up
\* to 1.5 Hold; above -5 up to -1.5 Sell; -5 or below Strong Sell.
C9_RecommendationThresholds ==
    ppc = "done" =>
      \A i \in 1..Len(pOutput) :
        pOutput[i].reasoning.text = "projected" =>
          LET pct == pOutput[i].reasoning.percent
              rec == pOutput[i].recommendation
          IN /\ (pct > 5000) => rec = "Strong Buy"
             /\ (pct > 1500 /\ pct <= 5000) => rec = "Buy"
             /\ (pct > -1500 /\ pct <= 1500) => rec = "Hold"
             /\ (pct > -5000 /\ pct <= -1500) => rec = "Sell"
             /\ (pct <= -5000) => rec = "Strong Sell"

C9_Witness ==
    /\ CalledOnSignals
    /\ pOutput[1].reasoning.percent = 5000
    /\ pOutput[1].recommendation = "Buy"

\* C10: the confidence of every prediction generatePrediction produces lies
\* in [0.30, 0.95], whatever the horizon and the volatility.
C10_ConfidenceClamped ==
    ppc = "done" =>
      \A i \in 1..Len(pOutput) :
        pOutput[i].reasoning.text = "projected" =>
          pOutput[i].confidence >= 300 /\ pOutput[i].confidence <= 950

C10_Witness ==
    /\ CalledOnSignals
    /\ pInput.daysFuture = 500 /\ pInput.volatility = 1100
    /\ pOutput[1].confidence = 300

AllClosesEqual(points) ==
    \A i, j \in 1..Len(points) : points[i].close = points[j].close

\* C11: for a series of 10 or more points whose closes are all equal the
\* 1-day prediction carries no noise: its predictedPrice is, to the cent,
\* currentPrice * (1 + shortTrend + longTrend) for trend terms of +-0.01 and
\* +-0.005, and its recommendation is Hold.
C11_ConstantSeriesHold ==
    (/\ CalledOnSeries /\ pInput.stockData.present
     /\ Len(pInput.stockData.points) >= 10
     /\ AllClosesEqual(pInput.stockData.points))
    => LET cur == pInput.stockData.points[1].close
           p1 == pOutput[1]
       IN /\ \E st \in {-10, 10}, lt \in {-5, 5} :
                2 * Abs(p1.predictedPrice * 1000 - cur * (1000 + st + lt)) <= 1000
          /\ p1.recommendation = "Hold"

RECURSIVE SumOfCloses(_, _, _)
\* the sum of the closes of points[from..to]
SumOfCloses(points, from, to) ==
    IF from > to THEN 0
    ELSE points[to].close + SumOfCloses(points, from, to - 1)

\* C12: calculateSMA(series, p) is 0 for a series of fewer than p points and
\* otherwise the arithmetic mean of the p most recent closes (of all closes
\* when the series has exactly p points).  pValue is in 1/SmaUnit cent.
C12_MovingAverage ==
    (ppc = "returned" /\ pInput.call = "calculateSMA")
    => LET n == Len(pInput.data)
           p == pInput.period
       IN /\ (n < p) => pValue = 0
          /\ (n >= p) =>
                pValue * p = SmaUnit * SumOfCloses(pInput.data, n - p + 1, n)

C12_Witness ==
    /\ ppc = "returned" /\ pInput.call = "calculateSMA"
    /\ pInput.period = 20 /\ Len(pInput.data) = 20
    /\ ~AllClosesEqual(pInput.data)
    /\ pValue * 20 = SmaUnit * SumOfCloses(pInput.data, 1, 20)

\* C13: in generatePredictions on a series of 10 to 19 points the 20-point
\* average is the sentinel 0, insufficient data and not a price: when the
\* current price lies below the mean of the closes that exist, the long-trend
\* term chosen for each horizon is not the bullish +0.005 that comparing the
\* current price with a price of 0 gives.
C13_SentinelIsNotAPrice ==
    (/\ CalledOnSeries /\ pInput.stockData.present
     /\ Len(pInput.stockData.points) \in 10..19)
    => LET points == pInput.stockData.points
           n == Len(points)
       IN \A i \in 1..Len(pCalls) :
             (/\ pCalls[i].sma20 = 0
              /\ pCalls[i].currentPrice * n < SumOfCloses(points, 1, n))
             => pCalls[i].longTermTrend <= 0

\* C14: calculateVolatility returns 0 for every series whose closes are all
\* equal, of any length, and for every series of fewer than 2 points.
C14_VolatilityZero ==
    (/\ ppc = "returned" /\ pInput.call = "calculateVolatility"
     /\ (Len(pInput.data) < 2 \/ AllClosesEqual(pInput.data)))
    => pValue = 0

C14_Witness ==
    /\ ppc = "returned" /\ pInput.call = "calculateVolatility"
    /\ Len(pInput.data) = 33 /\ AllClosesEqual(pInput.data)
    /\ pValue = 0

(***************************************************************************)
(* SpecNews: one call of fetchStockNews.  The transport answers with a     *)
(* failure, with a body that is not an object, with the Information        *)
(* sentinel, with a body that has no usable feed, or with a feed whose     *)
(* items carry a time_published that Date can or cannot parse.             *)
(***************************************************************************)
NewsTimes == {"parsable", "unparsable"}
FeedItem(title, time) == [title |-> title, time_published |-> time]
FeedItems == {FeedItem(t, d) : t \in {"first", "second"}, d \in NewsTimes}
Feeds == UNION {[1..n -> FeedItems] : n \in 0..MaxFeed}

NewsResponse(kind, feed) == [kind |-> kind, feed |-> feed]

\* the placeholder items of lines 796-804, 812-820 and 835-843
NotFoundItem(symbol) ==
    [title |-> "No recent news found for", symbol |-> symbol,
     source |-> "StockWhisperer", url |-> "#"]
ErrorItem(symbol) ==
    [title |-> "Could not retrieve news for", symbol |-> symbol,
     source |-> "StockWhisperer", url |-> "#"]
\* a feed item mapped to a NewsItem
NewsItem(item) ==
    [title |-> item.title, date |-> item.time_published,
     source |-> "feed", url |-> "feed"]

\* Array.prototype.slice(0, n)
sliceFirst(s, n) == SubSeq(s, 1, Min(Len(s), n))

NewsReturns(items) == [thrown |-> FALSE, items |-> items]
NewsThrows == [thrown |-> TRUE, items |-> <<>>]

fetchStockNews_try(symbol, resp) ==
    CASE resp.kind \in {"networkError", "notOk", "badJson", "nullBody"} ->
            NewsThrows
      [] resp.kind = "information" -> NewsReturns(<<NotFoundItem(symbol)>>)
      [] resp.kind \in {"noFeed", "feedNotArray"} ->
            NewsReturns(<<NotFoundItem(symbol)>>)
      [] resp.kind = "feed" ->
            IF Len(resp.feed) = 0
            THEN NewsReturns(<<NotFoundItem(symbol)>>)
            ELSE LET first == sliceFirst(resp.feed, 3)
                 IN IF \E i \in 1..Len(first) :
                          first[i].time_published = "unparsable"
                    THEN NewsThrows    \* toISOString of an invalid Date
                    ELSE NewsReturns([i \in 1..Len(first) |-> NewsItem(first[i])])

\* a faulty variant of the catch block: an empty array is returned
fetchStockNews_catch_empty(symbol) == NewsReturns(<<>>)

fetchStockNews_catch(symbol) == NewsReturns(<<ErrorItem(symbol)>>)

fetchStockNews(symbol, resp) ==
    LET r == fetchStockNews_try(symbol, resp)
    IN IF r.thrown THEN fetchStockNews_catch(symbol) ELSE r

NewsSymbols == {Sym("AAPL", ""), Sym("RELIANCE", "NS"), Sym("TCS", "BSE")}

CallFetchStockNews ==
    /\ npc = "idle"
    /\ \E symbol \in NewsSymbols : nSymbol' = symbol
    /\ npc' = "awaiting"
    /\ UNCHANGED <<nResponse, nItems, nThrown>>
    /\ UNCHANGED <<fetchVars, pageVars, predictVars, restVars>>

NewsAnswer(resp) ==
    /\ \E r \in {fetchStockNews(nSymbol, resp)} :
          /\ nItems' = r.items
          /\ nThrown' = r.thrown
    /\ nResponse' = resp
    /\ npc' = "done"
    /\ UNCHANGED nSymbol
    /\ UNCHANGED <<fetchVars, pageVars, predictVars, restVars>>

NewsNetworkError ==
    /\ npc = "awaiting"
    /\ NewsAnswer(NewsResponse("networkError", <<>>))

NewsNonOkStatus ==
    /\ npc = "awaiting"
    /\ NewsAnswer(NewsResponse("notOk", <<>>))

NewsUnparsableBody ==
    /\ npc = "awaiting"
    /\ NewsAnswer(NewsResponse("badJson", <<>>))

NewsNullBody ==
    /\ npc = "awaiting"
    /\ NewsAnswer(NewsResponse("nullBody", <<>>))

NewsInformation ==
    /\ npc = "awaiting"
    /\ NewsAnswer(NewsResponse("information", <<>>))

NewsNoFeed ==
    /\ npc = "awaiting"
    /\ \E kind \in {"noFeed", "feedNotArray"} :
          NewsAnswer(NewsResponse(kind, <<>>))

NewsFeedReturned ==
    /\ npc = "awaiting"
    /\ \E feed \in Feeds : NewsAnswer(NewsResponse("feed", feed))

InitNews == InitFetchVars /\ InitPageVars /\ InitPredictVars /\ InitNewsVars /\ InitRestVars

NextNews ==
    \/ CallFetchStockNews
    \/ NewsNetworkError
    \/ NewsNonOkStatus
    \/ NewsUnparsableBody
    \/ NewsNullBody
    \/ NewsInformation
    \/ NewsNoFeed
    \/ NewsFeedReturned

SpecNews == InitNews /\ [][NextNews]_vars

C16_FailuresDoNotAbort ==
    [][\A t \in 1..Len(tasks) :
          (/\ tasks[t].kind = "search" /\ tasks[t].pc # "finished"
           /\ tasks'[t].pc = "finished")
          => /\ isLoading' = FALSE
             /\ {"stockData", "predictions"} \subseteq tasks'[t].stored]_vars

C16_Witness ==
    \E t \in 1..Len(tasks) :
        /\ tasks[t].kind = "search" /\ tasks[t].pc = "finished"
        /\ tasks[t].rejected = {"overviewNews", "metrics"}
        /\ tasks[t].stored = {"stockData", "predictions"}
        /\ predictions = Shown(t) /\ ~isLoading

\* C17: every started search eventually finishes, with isLoading false and
\* a series displayed, whatever the transport does: a call that never answers
\* is cut off by a timeout and handled like a transport error.
C17_EverySearchFinishes ==
    \A t \in 1..MaxTasks :
        (t <= Len(tasks) /\ tasks[t].kind = "search")
        ~> (/\ t <= Len(tasks) /\ tasks[t].pc = "finished"
            /\ ~isLoading /\ stockData # NoDisplay)

(***************************************************************************)
(* Further properties checked under SpecFetch.                             *)
(***************************************************************************)
\* C18: when the most recent date of a fetched series is more than 3 months
\* (at most 92 days) before now, whatever day now is, fetchStockData returns
\* the series and has surfaced a warning.
C18_StaleSeriesWarned ==
    (/\ fpc = "done" /\ ~fThrown /\ ~fSynthetic /\ fSeries # <<>>
     /\ \A today \in TodayChoices, i \in 1..Len(fSeries) :
           fSeries[i].date + 92 < today)
    => demoToasts > 0

\* C19: within one invocation fetchMetrics and generatePredictions are
\* called only after fetchStockData of that invocation has returned, and
\* both receive exactly the series it returned; the overview and the news
\* fetch are in flight together and settle in either order.
C19_SeriesOfTheSameSearch ==
    \A t \in 1..Len(tasks) :
        /\ tasks[t].metricsArg # NoDisplay
              => (tasks[t].metricsArg = Shown(t) /\ tasks[t].localData = Shown(t))
        /\ tasks[t].predictArg # NoDisplay
              => (tasks[t].predictArg = Shown(t) /\ tasks[t].localData = Shown(t))
        /\ tasks[t].pc = "awaitStockData"
              => (tasks[t].metricsArg = NoDisplay /\ tasks[t].predictArg = NoDisplay)
        /\ tasks[t].pc \in {"awaitMetrics", "finished"}
              => tasks[t].metricsArg = Shown(t)
        /\ (tasks[t].pc = "finished" /\ tasks[t].kind = "search")
              => tasks[t].predictArg = Shown(t)

C19_Witness ==
    \E t, u \in 1..Len(tasks) :
        /\ tasks[t].kind = "search" /\ tasks[t].pc = "finished"
        /\ tasks[t].metricsArg = Shown(t) /\ tasks[t].predictArg = Shown(t)
        /\ stockData = Shown(u) /\ tasks[u].sym # tasks[t].sym
        /\ tasks[u].pc = "awaitOverviewNews" /\ tasks[u].settled = {"news"}

(***************************************************************************)
(* Further properties checked under SpecPredict.                           *)
(***************************************************************************)
\* the fractional change from the close `days` points before the latest one
\* to the latest close, the reference point being no earlier than the first
\* of the last 30 points
MomentumOver(points, days) ==
    LET n == Len(points)
        first == n - Min(n, 30) + 1
        ref == points[Max(n - days, first)].close
    IN ((points[n].close - ref) * FracUnit) \div ref

\* C20: for a series of at least 10 points generatePredictions returns
\* exactly three predictions, Tomorrow (1 day), Next Week (7 days) and Next
\* Month (30 days) in that order; the first two use the 7-day momentum and
\* the third the 14-day momentum, each taken over the last 30 points with
\* the lookback clamped to the first point of that window.
C20_ThreeHorizonsAndMomentum ==
    (/\ CalledOnSeries /\ pInput.stockData.present
     /\ Len(pInput.stockData.points) >= 10)
    => LET points == pInput.stockData.points
       IN /\ ~pThrown
          /\ Len(pOutput) = 3 /\ Len(pCalls) = 3
          /\ <<pOutput[1].timeframe, pOutput[2].timeframe, pOutput[3].timeframe>>
                = <<"Tomorrow", "Next Week", "Next Month">>
          /\ \A i \in 1..3 : pCalls[i].timeframe = pOutput[i].timeframe
          /\ <<pCalls[1].daysFuture, pCalls[2].daysFuture, pCalls[3].daysFuture>>
                = <<1, 7, 30>>
          /\ pCalls[1].momentum = MomentumOver(points, 7)
          /\ pCalls[2].momentum = MomentumOver(points, 7)
          /\ pCalls[3].momentum = MomentumOver(points, 14)

C20_Witness ==
    /\ CalledOnSeries /\ pInput.stockData.present
    /\ Len(pInput.stockData.points) = 11
    /\ Len(pOutput) = 3 /\ Len(pCalls) = 3
    /\ pCalls[1].momentum = MomentumOver(pInput.stockData.points, 7)
    /\ pCalls[3].momentum = MomentumOver(pInput.stockData.points, 14)
    /\ pCalls[1].momentum > 0 /\ pCalls[3].momentum = 0

(***************************************************************************)
(* SpecOverview: one call of fetchCompanyOverview, made after a price      *)
(* series was fetched that was real or synthetic.  The transport answers   *)
(* with a failure, with a body that is null or has no keys, or with an     *)
(* object in which Symbol, Name and Exchange are present or missing.       *)
(***************************************************************************)
\* symbol.includes('.NS') and symbol.includes('.BSE')
includesSuffix(symbol, x) == symbol.suffix = x /\ ~symbol.lower

OverviewFields(sym, name, exchange) ==
    [Symbol |-> sym, Name |-> name, Exchange |-> exchange]
\* "" stands for a field that is missing or empty
OverviewPayloads ==
    {OverviewFields(s, n, x) :
        s \in {"", "listed"}, n \in {"", "Listed Company"},
        x \in {"", "NSE", "NASDAQ"}}

OverviewResponse(kind, fields) == [kind |-> kind, fields |-> fields]

StockProfile(symbol, name, description, industry, exchange) ==
    [symbol |-> symbol, name |-> name, description |-> description,
     industry |-> industry, exchange |-> exchange]

\* the company names of lines 642-652
fallbackCompanyName(symbol) ==
    IF symbol.lower THEN symbol.base
    ELSE CASE symbol.base = "RELIANCE" -> "Reliance Industries"
           [] symbol.base = "TCS" -> "Tata Consultancy Services"
           [] OTHER -> symbol.base

fallbackIndustry(symbol) ==
    IF isIndianStock(symbol) THEN "Indian Market" ELSE "Not available"

\* the profile of lines 654-664, for a body that is null or has no keys
notFoundProfile(symbol) ==
    StockProfile(symbol, fallbackCompanyName(symbol), "Information not available",
                 fallbackIndustry(symbol),
                 IF includesSuffix(symbol, "NS") THEN "NSE"
                 ELSE IF includesSuffix(symbol, "BSE") THEN "BSE"
                 ELSE IF symbol \in {Sym("AAPL", ""), Sym("MSFT", ""),
                                     Sym("AMZN", ""), Sym("GOOGL", "")}
                      THEN "NASDAQ" ELSE "UNKNOWN")

\* the profile of lines 674-684
listedProfile(symbol, data) ==
    LET given == IF (includesSuffix(symbol, "NS") \/ includesSuffix(symbol, "BSE"))
                      /\ data.Exchange = ""
                 THEN IF includesSuffix(symbol, "NS") THEN "NSE" ELSE "BSE"
                 ELSE data.Exchange
    IN StockProfile(IF data.Symbol = "" THEN symbol ELSE Sym(data.Symbol, ""),
                    IF data.Name = "" THEN symbol.base ELSE data.Name,
                    "No description available", "Not available",
                    IF given = "" THEN "UNKNOWN" ELSE given)

OverviewReturns(profile) == [thrown |-> FALSE, profile |-> profile]
OverviewThrows == [thrown |-> TRUE, profile |-> NoValue]

fetchCompanyOverview_try(symbol, resp) ==
    CASE resp.kind \in {"networkError", "notOk", "badJson"} -> OverviewThrows
      [] resp.kind \in {"nullBody", "emptyObject"} ->
            OverviewReturns(notFoundProfile(symbol))
      [] resp.kind = "object" -> OverviewReturns(listedProfile(symbol, resp.fields))

\* a faulty variant of the catch block: the exception is rethrown
fetchCompanyOverview_catch_rethrow(symbol) == OverviewThrows

\* the profile of lines 688-708
fetchCompanyOverview_catch(symbol) ==
    OverviewReturns(
        StockProfile(symbol, symbol.base, "Information not available",
                     fallbackIndustry(symbol),
                     IF includesSuffix(symbol, "NS") THEN "NSE"
                     ELSE IF includesSuffix(symbol, "BSE") THEN "BSE"
                     ELSE "UNKNOWN"))

fetchCompanyOverview(symbol, resp) ==
    LET r == fetchCompanyOverview_try(symbol, resp)
    IN IF r.thrown THEN fetchCompanyOverview_catch(symbol) ELSE r

OverviewSymbols ==
    {Sym("AAPL", ""), Sym("RELIANCE", "NS"), Sym("TCS", "BSE"), Sym("F", ""),
     Sym("WIPRO", "NS")}

exceptOverviewVars ==
    <<fetchVars, pageVars, predictVars, newsVars, mockVars, chartVars,
      watchlistVars>>

CallFetchCompanyOverview ==
    /\ opc = "idle"
    /\ \E symbol \in OverviewSymbols : oSymbol' = symbol
    /\ \E synthetic \in BOOLEAN : oSynthetic' = synthetic
    /\ opc' = "awaiting"
    /\ UNCHANGED <<oResponse, oProfile, oThrown>>
    /\ UNCHANGED exceptOverviewVars

OverviewAnswer(resp) ==
    /\ \E r \in {fetchCompanyOverview(oSymbol, resp)} :
          /\ oProfile' = r.profile
          /\ oThrown' = r.thrown
    /\ oResponse' = resp
    /\ opc' = "done"
    /\ UNCHANGED <<oSymbol, oSynthetic>>
    /\ UNCHANGED exceptOverviewVars

OverviewNetworkError ==
    /\ opc = "awaiting"
    /\ OverviewAnswer(OverviewResponse("networkError", NoValue))

OverviewNonOkStatus ==
    /\ opc = "awaiting"
    /\ OverviewAnswer(OverviewResponse("notOk", NoValue))

OverviewUnparsableBody ==
    /\ opc = "awaiting"
    /\ OverviewAnswer(OverviewResponse("badJson", NoValue))

OverviewEmptyPayload ==
    /\ opc = "awaiting"
    /\ \E kind \in {"nullBody", "emptyObject"} :
          OverviewAnswer(OverviewResponse(kind, NoValue))

OverviewReturned ==
    /\ opc = "awaiting"
    /\ \E fields \in OverviewPayloads :
          OverviewAnswer(OverviewResponse("object", fields))

InitOverview ==
    InitFetchVars /\ InitPageVars /\ InitPredictVars /\ InitNewsVars /\ InitRestVars

NextOverview ==
    \/ CallFetchCompanyOverview
    \/ OverviewNetworkError
    \/ OverviewNonOkStatus
    \/ OverviewUnparsableBody
    \/ OverviewEmptyPayload
    \/ OverviewReturned

SpecOverview == InitOverview /\ [][NextOverview]_vars

(***************************************************************************)
(* Properties checked under SpecOverview.                                  *)
(***************************************************************************)
\* C21: fetchCompanyOverview never throws; for a transport error, a non-OK
\* status or an empty payload it returns a placeholder profile whose symbol
\* is the requested symbol, whether the price series fetched before was real
\* or synthetic.
C21_OverviewNeverThrows ==
    opc = "done"
    => /\ ~oThrown
       /\ oProfile # NoValue
       /\ oResponse.kind \in {"networkError", "notOk", "nullBody", "emptyObject"}
          => /\ oProfile.symbol = oSymbol
             /\ oProfile.description = "Information not available"

C21_Witness ==
    /\ opc = "done" /\ oResponse.kind = "networkError" /\ oSynthetic
    /\ ~oThrown /\ oProfile.symbol = oSymbol /\ oProfile.exchange = "NSE"

(***************************************************************************)
(* Properties of the synthetic series, checked under SpecFetch.            *)
(***************************************************************************)
\* C22: the synthetic series covers exactly MockDays consecutive calendar
\* days ending today with the weekend days removed: no point is dated on a
\* Saturday or a Sunday, and every other day of the range has exactly one
\* point.
C22_MockCoversWeekdays ==
    (fpc = "done" /\ fSynthetic)
    => LET range == (mockClock.today - MockDays + 1)..mockClock.today
       IN /\ \A i \in 1..Len(fSeries) :
                /\ isWeekday(fSeries[i].date)
                /\ fSeries[i].date \in range
          /\ \A d \in range :
                isWeekday(d) =>
                   Cardinality({i \in 1..Len(fSeries) : fSeries[i].date = d}) = 1

(***************************************************************************)
(* SpecMockPoint: one pass of the loop body of generateMockStockData on a  *)
(* day that is kept.  Prices inside the pass are in 1/1000 cent; the point *)
(* pushed holds cents, as toFixed(2) rounds them.                          *)
(***************************************************************************)
\* +x.toFixed(2) of a price in 1/1000 cent, in cents
toFixed2(x) == RoundMulDiv(x, 1, FracUnit)

MockPoint(open, high, low, close) ==
    [open |-> open, high |-> high, low |-> low, close |-> close]

\* lines 583-597; the draws are Math.random() in units of 1/FracUnit, in the
\* order the code makes them: change, high, low, open
mockPoint(basePrice, rChange, rHigh, rLow, rOpen) ==
    LET changePercent == (rChange - 500) * 2        \* in 1/1000 percent
        moved == basePrice + MulDiv(basePrice, changePercent, 100 * FracUnit)
        dailyVolatility == moved \div 50
        high == moved + MulDiv(dailyVolatility, rHigh, FracUnit)
        low == moved - MulDiv(dailyVolatility, rLow, FracUnit)
        open == moved - MulDiv(dailyVolatility \div 2, rOpen, FracUnit)
    IN MockPoint(toFixed2(open), toFixed2(high), toFixed2(low), toFixed2(moved))

MockSymbols == {Sym("AAPL", ""), Sym("WIPRO", "NS"), Sym("RELIANCE", "NS")}
MockPointDraws == {0, 100, 500, 900, 999}

exceptMockVars ==
    <<fetchVars, pageVars, predictVars, newsVars, overviewVars, chartVars,
      watchlistVars>>

MockPointPushed ==
    /\ mpc = "idle"
    /\ \E symbol \in MockSymbols, rChange \in MockPointDraws,
          rHigh \in MockPointDraws, rLow \in MockPointDraws,
          rOpen \in MockPointDraws :
          /\ mInput' = [symbol |-> symbol, rChange |-> rChange, rHigh |-> rHigh,
                        rLow |-> rLow, rOpen |-> rOpen]
          /\ mPoint' = mockPoint(mockBasePrice(symbol) * FracUnit,
                                 rChange, rHigh, rLow, rOpen)
    /\ mpc' = "done"
    /\ UNCHANGED exceptMockVars

InitMockPoint ==
    InitFetchVars /\ InitPageVars /\ InitPredictVars /\ InitNewsVars /\ InitRestVars

NextMockPoint == MockPointPushed

SpecMockPoint == InitMockPoint /\ [][NextMockPoint]_vars

\* C23: every point of the synthetic series satisfies
\* low <= min(open, close) <= max(open, close) <= high, whatever the draws.
C23_MockPointOrdered ==
    mpc = "done"
    => /\ mPoint.low <= Min(mPoint.open, mPoint.close)
       /\ Max(mPoint.open, mPoint.close) <= mPoint.high

(***************************************************************************)
(* Further properties checked under SpecFetch.                             *)
(***************************************************************************)
\* C24: one call of fetchStockData surfaces the demonstration-data warning
\* exactly once when the series it returns is synthetic and never when it is
\* real, also after a sibling-exchange attempt, and no exception reaches the
\* caller.
C24_DemoWarningExactlyOnce ==
    fpc = "done"
    => /\ ~fThrown
       /\ fSynthetic => demoToasts = 1
       /\ ~fSynthetic => demoToasts = 0

C24_Witness ==
    /\ fpc = "done" /\ fSynthetic /\ ~fThrown /\ demoToasts = 1
    /\ Len(attempts) = 2 /\ attempts[1] # attempts[2]

\* the base names of popularStocks, for which the listed symbol is used
PopularBases == {popularStocks[i].base : i \in 1..Len(popularStocks)}
ListedSymbol(base) ==
    popularStocks[CHOOSE i \in 1..Len(popularStocks) : popularStocks[i].base = base]

\* C25: the symbol the search box passes on is a function of the trimmed,
\* upper-cased query: a blank query is not passed on; a query on the
\* exception list or with a '.' separator gets no suffix added; any other
\* alphabetic query of two or more characters gets '.NS', or the listed
\* symbol when it is the base name of a popular stock; resolving the result
\* again changes nothing.
C25_SearchBoxResolution ==
    entry = "searchbox"
    => LET q == [rawQuery EXCEPT !.lower = FALSE, !.pad = FALSE]
       IN IF q.base = ""
          THEN fpc = "rejected" /\ attempts = <<>>
          ELSE /\ fpc # "rejected"
               /\ attempts[1] =
                    (IF q.suffix # "" THEN q
                     ELSE IF q.base \in PopularBases THEN ListedSymbol(q.base)
                     ELSE IF q.base \in ExceptionList THEN q
                     ELSE IF q.base \in LongBases THEN Sym(q.base, "NS")
                     ELSE q)
               /\ StockSearch_handleSearch(attempts[1]) = attempts[1]

C25_Witness ==
    /\ entry = "searchbox" /\ rawQuery = Typed("NFLX", "", FALSE, FALSE)
    /\ fpc # "rejected" /\ attempts[1] = Sym("NFLX", "")

(***************************************************************************)
(* Further properties checked under SpecPredict.                           *)
(***************************************************************************)
\* C26: the trend terms are mean-reverting: when the current price is above
\* its 5-point (20-point) moving average the short (long) trend term is
\* negative, and when it is below the average the term is positive.  An
\* average of 0 stands for one that does not exist and is left out.
C26_TrendsMeanReverting ==
    ppc = "done"
    => \A i \in 1..Len(pCalls) :
          LET c == pCalls[i]
              price == c.currentPrice * SmaUnit
          IN /\ (c.sma5 # 0 /\ price > c.sma5) => c.shortTermTrend < 0
             /\ (c.sma5 # 0 /\ price < c.sma5) => c.shortTermTrend > 0
             /\ (c.sma20 # 0 /\ price > c.sma20) => c.longTermTrend < 0
             /\ (c.sma20 # 0 /\ price < c.sma20) => c.longTermTrend > 0

\* C27: every prediction returned by generatePredictions is self-consistent:
\* its recommendation is the category the thresholds assign to
\* (predictedPrice - currentPrice) / currentPrice x 100 for the latest close
\* of the series, also when the series has fewer than 10 points.
C27_RecommendationSelfConsistent ==
    (/\ CalledOnSeries /\ pInput.stockData.present
     /\ Len(pInput.stockData.points) >= 1 /\ ~pThrown)
    => LET points == pInput.stockData.points
           currentPrice == points[Len(points)].close
       IN \A i \in 1..Len(pOutput) :
             pOutput[i].recommendation =
                Recommendation(MulDiv(pOutput[i].predictedPrice - currentPrice,
                                      100 * FracUnit, currentPrice))

(***************************************************************************)
(* Further properties checked under SpecPage.                              *)
(***************************************************************************)
SearchInFlight ==
    \E t \in 1..Len(tasks) :
        tasks[t].kind = "search" /\ tasks[t].pc # "finished"

\* C28: isLoading is true in every state in which a search has started and
\* not yet finished, also when two searches overlap, and false in every state
\* in which no search is in flight.
C28_LoadingWhileSearching == isLoading <=> SearchInFlight

(***************************************************************************)
(* SpecChart: the refresh machinery of StockChart, with onRefreshData      *)
(* given.  A step is one event handler or timer callback up to its await,  *)
(* followed by the effects React runs for the state it changed.            *)
(***************************************************************************)
\* the live-update effect: the timer exists after it ran iff this holds
liveUpdateEffect(live, open, connection) ==
    live /\ open /\ connection # "offline"

\* setIsUpdating(true); await onRefreshData()
startRefresh(origin) ==
    /\ Len(refreshesInFlight) < MaxRefreshes
    /\ isUpdating' = TRUE
    /\ refreshesInFlight' = Append(refreshesInFlight, origin)

exceptChartVars ==
    <<fetchVars, pageVars, predictVars, newsVars, overviewVars, mockVars,
      watchlistVars>>

\* the refresh button, disabled while isUpdating or offline
ManualRefresh ==
    /\ ~isUpdating /\ connectionStatus # "offline"
    /\ startRefresh("manual")
    /\ UNCHANGED <<isLiveUpdate, isMarketOpen, connectionStatus,
                   liveUpdateInterval>>
    /\ UNCHANGED exceptChartVars

\* the live-update switch, disabled while the market is closed or offline
LiveUpdateToggle ==
    /\ isMarketOpen /\ connectionStatus # "offline"
    /\ isLiveUpdate' = ~isLiveUpdate
    /\ IF ~isLiveUpdate /\ ~isUpdating
       THEN startRefresh("toggle")
       ELSE UNCHANGED <<isUpdating, refreshesInFlight>>
    /\ liveUpdateInterval' =
          liveUpdateEffect(~isLiveUpdate, isMarketOpen, connectionStatus)
    /\ UNCHANGED <<isMarketOpen, connectionStatus>>
    /\ UNCHANGED exceptChartVars

\* the callback of the live-update timer
LiveUpdateTick ==
    /\ liveUpdateInterval
    /\ startRefresh("timer")
    /\ UNCHANGED <<isLiveUpdate, isMarketOpen, connectionStatus,
                   liveUpdateInterval>>
    /\ UNCHANGED exceptChartVars

\* onRefreshData settled, resolved or rejected: finally setIsUpdating(false)
RefreshSettled ==
    /\ \E i \in 1..Len(refreshesInFlight) :
          refreshesInFlight' =
             SubSeq(refreshesInFlight, 1, i - 1)
                \o SubSeq(refreshesInFlight, i + 1, Len(refreshesInFlight))
    /\ isUpdating' = FALSE
    /\ UNCHANGED <<isLiveUpdate, isMarketOpen, connectionStatus,
                   liveUpdateInterval>>
    /\ UNCHANGED exceptChartVars

\* checkMarketStatus found the market opened or closed
MarketStatusChanged ==
    /\ isMarketOpen' = ~isMarketOpen
    /\ liveUpdateInterval' =
          liveUpdateEffect(isLiveUpdate, ~isMarketOpen, connectionStatus)
    /\ UNCHANGED <<isLiveUpdate, connectionStatus, isUpdating,
                   refreshesInFlight>>
    /\ UNCHANGED exceptChartVars

\* checkConnection or the online / offline events changed the status
ConnectionChanged ==
    /\ \E status \in {"online", "offline", "weak"} \ {connectionStatus} :
          /\ connectionStatus' = status
          /\ liveUpdateInterval' =
                liveUpdateEffect(isLiveUpdate, isMarketOpen, status)
    /\ UNCHANGED <<isLiveUpdate, isMarketOpen, isUpdating, refreshesInFlight>>
    /\ UNCHANGED exceptChartVars

InitChart ==
    InitFetchVars /\ InitPageVars /\ InitPredictVars /\ InitNewsVars /\ InitRestVars

NextChart ==
    \/ ManualRefresh
    \/ LiveUpdateToggle
    \/ LiveUpdateTick
    \/ RefreshSettled
    \/ MarketStatusChanged
    \/ ConnectionChanged

SpecChart == InitChart /\ [][NextChart]_vars

\* C29: at most one refresh is in flight at any time, isUpdating is true
\* exactly while a refresh is in flight, and the live-update timer exists
\* exactly while live updates are enabled, the market is open and the
\* connection is not offline.
C29_OneRefreshInFlight ==
    /\ Len(refreshesInFlight) <= 1
    /\ isUpdating <=> refreshesInFlight # <<>>
    /\ liveUpdateInterval <=>
          (isLiveUpdate /\ isMarketOpen /\ connectionStatus # "offline")

(***************************************************************************)
(* SpecWatchlist: the Watchlist component and the two localStorage keys    *)
(* it owns.  A stored value is <<>> while the key is absent and <<v>> once *)
(* JSON.stringify(v) was stored; the values are arrays of plain records    *)
(* and strings, which JSON gives back as they were.                        *)
(***************************************************************************)
WatchlistItem(symbol, name, exchange) ==
    [symbol |-> symbol, name |-> name, exchange |-> exchange]

\* INDIAN_POPULAR_STOCKS and US_POPULAR_STOCKS, one entry each
watchlistPopularStocks(market) ==
    IF market = "INDIA"
    THEN {WatchlistItem("TCS", "Tata Consultancy Services", "NSE")}
    ELSE {WatchlistItem("AAPL", "Apple Inc.", "NASDAQ")}

\* the texts typed into the custom-symbol input
TypedSymbols == {"aapl", "AAPL", "xyz"}

\* newSymbol.toUpperCase()
symbolUpperCase(text) ==
    CASE text = "aapl" -> "AAPL"
      [] text = "xyz" -> "XYZ"
      [] OTHER -> text

\* a faulty variant of inWatchlist: it compares the names
inWatchlist_byName(list, symbol) ==
    \E i \in DOMAIN list : list[i].name = symbol

\* watchlist.some(item => item.symbol === symbol)
inWatchlist(list, symbol) ==
    \E i \in DOMAIN list : list[i].symbol = symbol

\* saved ? JSON.parse(saved) : []
loadStored(saved) == IF saved = <<>> THEN <<>> ELSE saved[1]

RECURSIVE withoutSymbol(_, _)
\* watchlist.filter(item => item.symbol !== symbol)
withoutSymbol(list, symbol) ==
    IF list = <<>> THEN <<>>
    ELSE IF Head(list).symbol = symbol
         THEN withoutSymbol(Tail(list), symbol)
         ELSE <<Head(list)>> \o withoutSymbol(Tail(list), symbol)

RECURSIVE setDelete(_, _)
\* Set.delete on the insertion order
setDelete(order, symbol) ==
    IF order = <<>> THEN <<>>
    ELSE IF Head(order) = symbol
         THEN setDelete(Tail(order), symbol)
         ELSE <<Head(order)>> \o setDelete(Tail(order), symbol)

exceptWatchlistVars ==
    <<fetchVars, pageVars, predictVars, newsVars, overviewVars, mockVars,
      chartVars>>

\* the shared body of both add handlers
addToWatchlist(stock) ==
    IF ~inWatchlist(watchlist, stock.symbol)
    THEN /\ Len(watchlist) < MaxWatchlist
         /\ watchlist' = Append(watchlist, stock)
         /\ localStorage' =
               [localStorage EXCEPT !.watchlist = <<Append(watchlist, stock)>>]
         /\ watchlistToast' = "added"
    ELSE /\ watchlistToast' = "already"
         /\ UNCHANGED <<watchlist, localStorage>>

handleAddToWatchlist(stock) ==
    /\ addToWatchlist(stock)
    /\ UNCHANGED <<favoriteStocks, selectedMarket, newSymbol>>
    /\ UNCHANGED exceptWatchlistVars

\* the heart button of a popular stock of the selected market
AddPopularClicked ==
    /\ \E stock \in watchlistPopularStocks(selectedMarket) :
          handleAddToWatchlist(stock)

handleAddCustomSymbol ==
    /\ newSymbol # ""
    /\ LET symbol == symbolUpperCase(newSymbol)
           exchange == IF selectedMarket = "INDIA" THEN "NSE" ELSE "NASDAQ"
       IN  /\ addToWatchlist(WatchlistItem(symbol, symbol, exchange))
           /\ newSymbol' =
                 IF inWatchlist(watchlist, symbol) THEN newSymbol ELSE ""
    /\ UNCHANGED <<favoriteStocks, selectedMarket>>
    /\ UNCHANGED exceptWatchlistVars

handleRemoveFromWatchlist ==
    /\ \E i \in DOMAIN watchlist :
          LET updatedWatchlist == withoutSymbol(watchlist, watchlist[i].symbol)
          IN  /\ watchlist' = updatedWatchlist
              /\ localStorage' =
                    [localStorage EXCEPT !.watchlist = <<updatedWatchlist>>]
    /\ watchlistToast' = "removed"
    /\ UNCHANGED <<favoriteStocks, selectedMarket, newSymbol>>
    /\ UNCHANGED exceptWatchlistVars

\* the star button of a watchlist entry
toggleFavorite ==
    /\ \E i \in DOMAIN watchlist :
          LET symbol == watchlist[i].symbol
              has == \E k \in DOMAIN favoriteStocks : favoriteStocks[k] = symbol
              updatedFavorites ==
                 IF has THEN setDelete(favoriteStocks, symbol)
                 ELSE Append(favoriteStocks, symbol)
          IN  /\ favoriteStocks' = updatedFavorites
              /\ localStorage' =
                    [localStorage EXCEPT !.favorites = <<updatedFavorites>>]
              /\ watchlistToast' = IF has THEN "unfavorited" ELSE "favorited"
    /\ UNCHANGED <<watchlist, selectedMarket, newSymbol>>
    /\ UNCHANGED exceptWatchlistVars

SymbolTyped ==
    /\ \E text \in TypedSymbols \cup {""} :
          /\ text # newSymbol
          /\ newSymbol' = text
    /\ UNCHANGED <<watchlist, favoriteStocks, selectedMarket, localStorage,
                   watchlistToast>>
    /\ UNCHANGED exceptWatchlistVars

MarketSelected ==
    /\ selectedMarket' = IF selectedMarket = "US" THEN "INDIA" ELSE "US"
    /\ UNCHANGED <<watchlist, favoriteStocks, newSymbol, localStorage,
                   watchlistToast>>
    /\ UNCHANGED exceptWatchlistVars

\* the page is loaded again: every useState initialiser runs
WatchlistMounted ==
    /\ watchlist' = loadStored(localStorage.watchlist)
    /\ favoriteStocks' = loadStored(localStorage.favorites)
    /\ selectedMarket' = "US" /\ newSymbol' = "" /\ watchlistToast' = "none"
    /\ UNCHANGED localStorage
    /\ UNCHANGED exceptWatchlistVars

InitWatchlist ==
    InitFetchVars /\ InitPageVars /\ InitPredictVars /\ InitNewsVars /\ InitRestVars

NextWatchlist ==
    \/ AddPopularClicked
    \/ handleAddCustomSymbol
    \/ handleRemoveFromWatchlist
    \/ toggleFavorite
    \/ SymbolTyped
    \/ MarketSelected
    \/ WatchlistMounted

SpecWatchlist == InitWatchlist /\ [][NextWatchlist]_vars

HoldsSymbol(symbol) == \E i \in DOMAIN watchlist : watchlist[i].symbol = symbol

NoTwoEntriesWithOneSymbol ==
    \A i, j \in DOMAIN watchlist :
       watchlist[i].symbol = watchlist[j].symbol => i = j

StorageEqualsMemory ==
    /\ loadStored(localStorage.watchlist) = watchlist
    /\ loadStored(localStorage.favorites) = favoriteStocks

AddOfPresentChangesNothing ==
    /\ \A market \in {"US", "INDIA"} :
          \A stock \in watchlistPopularStocks(market) :
             handleAddToWatchlist(stock) /\ HoldsSymbol(stock.symbol)
                => watchlist' = watchlist
    /\ handleAddCustomSymbol /\ HoldsSymbol(symbolUpperCase(newSymbol))
          => watchlist' = watchlist

\* C30: after any sequence of adds, custom adds, removals and favourite
\* toggles the watchlist holds no two entries with the same symbol, what a
\* reload would read from localStorage equals the watchlist and the
\* favourite set in memory, and adding a symbol that is already present
\* leaves the watchlist unchanged.
C30_WatchlistUniqueAndStored ==
    /\ [](NoTwoEntriesWithOneSymbol /\ StorageEqualsMemory)
    /\ [][AddOfPresentChangesNothing]_vars

\* a custom add of aapl was refused because the popular AAPL is listed,
\* after a removal and a favourite toggle were stored
C30_Witness ==
    /\ watchlistToast = "already" /\ newSymbol = "aapl"
    /\ HoldsSymbol("AAPL") /\ Len(watchlist) >= 2
    /\ favoriteStocks # <<>>
    /\ localStorage.watchlist = <<watchlist>>

====
